---- MODULE Spec2Model ----
(***************************************************************************)
(* Broker peering simulation, part 2 (src/peering2.py): the request-reply  *)
(* flow of a set of peered brokers, each with its local workers and        *)
(* clients.  The state is what main(), worker_task() and client_task()     *)
(* keep, plus the messages in flight on the ROUTER and REQ sockets.        *)
(***************************************************************************)
EXTENDS Naturals, Sequences, FiniteSets, TLC

\* Bounds of the model: the workers and the clients of a broker (the program
\* runs 3 and 10), and the requests all clients send together (each client
\* asks forever).
NbrWorkers == 2
NbrClients == 1
MaxReqs == 2

\* The READY messages repeated on a broker's local-backend, where senders
\* repeat them.
MaxRepeats == 1

\* The brokers of the cloud, by name (sys.argv[1] of each).  Broker "A" runs
\* main here; a broker whose pc is "ext" runs elsewhere, and is seen only by
\* what it sends to and answers on the cloud sockets.
Names == {"A", "B"}

VARIABLES
    peers,      \* main's peers, per broker: the list given on the command line
    pc,         \* where each broker's main is: init, poll, drain, done, crashed, ext
    workers,    \* main's workers list, per broker
    localfe,    \* messages waiting to be read on each broker's localfe socket
    localbe,    \* ... on its localbe socket
    cloudfe,    \* ... on its cloudfe socket
    cloudbe,    \* ... on its cloudbe socket
    wbox,       \* messages delivered to each worker's REQ socket
    wpc,        \* where each worker_task is: off, start, serve
    cbox,       \* messages delivered to each client's REQ socket
    cpc,        \* where each client_task is: off, send, recv
    bounded,    \* whether the clients stop asking after MaxReqs requests: the
                \* requests and the queue's history are counted where they do
    nsent,      \* how many requests the clients have sent, all together
    pushed,     \* every address main appended to workers, in order
    routed,     \* every address main popped from workers, in order
    last        \* what the latest step read and sent

vars == <<peers, pc, workers, localfe, localbe, cloudfe, cloudbe, wbox, wpc,
          cbox, cpc, bounded, nsent, pushed, routed, last>>

WorkerIx == 0 .. (NbrWorkers - 1)
ClientIx == 0 .. (NbrClients - 1)

Range(s) == {s[k] : k \in 1 .. Len(s)}

\* How often an address occurs in a list of addresses.
Count(a, s) == Cardinality({k \in 1 .. Len(s) : s[k] = a})

---------------------------------------------------------------------------
\* Identities and the sockets' framing.

WorkerId(name, i) == "Worker-" \o name \o "-" \o ToString(i)

ClientId(name, i) == "Client-" \o name \o "-" \o ToString(i)

\* A REQ socket sends its frames behind an empty delimiter.
ReqWire(frames) == <<"">> \o frames

\* A REQ socket hands over what follows the delimiter.
ReqRecv(wire) == Tail(wire)

\* A ROUTER socket prepends the sender's identity to what it receives.
RouterRecv(id, wire) == <<id>> \o wire

\* A ROUTER socket takes the first frame as the destination.
RouterDest(msg) == Head(msg)

RouterWire(msg) == Tail(msg)

Running(b) == pc[b] \in {"poll", "drain"}

---------------------------------------------------------------------------
\* The routing rules of main's loop.

\* workers.append(address)
NoPush(ws, address) == ws

PushUnique(ws, address) == IF address \in Range(ws) THEN ws ELSE Append(ws, address)

PushTwice(ws, address) == Append(Append(ws, address), address)

PushWorker(ws, address) == Append(ws, address)

\* workers.pop(0): the address it returns, and what is left
BackWorker(ws) == ws[Len(ws)]

FrontWorker(ws) == Head(ws)

KeepWorkers(ws) == ws

NoWorkers(ws) == <<>>

RestWorkers(ws) == Tail(ws)

\* while workers:
AlwaysCapacity(ws) == TRUE

HasCapacity(ws) == ws # <<>>

\* (address, empty), msg = msg[:2], msg[2:]
Address(msg) == msg[1]

Stripped(msg) == SubSeq(msg, 3, Len(msg))

\* msg[-1] == b'READY'
NeverReady(msg) == FALSE

IsReady(msg) == msg[Len(msg)] = "READY"

\* address = msg[0]; address in peers
ReplyChannelLocal(msg, ps) == "localfe"

ReplyChannel(msg, ps) == IF msg[1] \in Range(ps) THEN "cloudfe" ELSE "localfe"

\* if localbe in events ... elif cloudbe in events
BackendChoiceCloudFirst(events) ==
    IF "cloudbe" \in events THEN "cloudbe"
    ELSE IF "localbe" \in events THEN "localbe"
    ELSE "none"

BackendChoice(events) ==
    IF "localbe" \in events THEN "localbe"
    ELSE IF "cloudbe" \in events THEN "cloudbe"
    ELSE "none"

\* if cloudfe in events ... elif localfe in events ... else break
FrontendChoiceLocalFirst(events) ==
    IF "localfe" \in events THEN "localfe"
    ELSE IF "cloudfe" \in events THEN "cloudfe"
    ELSE "none"

FrontendChoice(events) ==
    IF "cloudfe" \in events THEN "cloudfe"
    ELSE IF "localfe" \in events THEN "localfe"
    ELSE "none"

\* reroutable = False for cloudfe, True for localfe
AlwaysReroutable(channel) == TRUE

Reroutable(channel) == channel = "localfe"

\* random.randint(0, 4)
Draws == 0 .. 4

\* if reroutable and peers and random.randint(0, 4) == 0
Offload(reroutable, ps, draw) == reroutable /\ ps # <<>> /\ draw = 0

\* [random.choice(peers), b''] + msg and [workers.pop(0), b''] + msg
ReaddressBare(address, msg) == <<address>> \o msg

Readdress(address, msg) == <<address, "">> \o msg

---------------------------------------------------------------------------
\* Delivery by the ROUTER sockets: a message whose destination is not a
\* connected peer of the socket is discarded.

Gone(b) == pc[b] \in {"crashed", "done"}

LocalBeSend(b, msg, wb) ==
    IF \E i \in WorkerIx : WorkerId(b, i) = RouterDest(msg)
    THEN LET i == CHOOSE k \in WorkerIx : WorkerId(b, k) = RouterDest(msg)
         IN  [wb EXCEPT ![b][i] = Append(@, RouterWire(msg))]
    ELSE wb

LocalFeSend(b, msg, cb) ==
    IF \E i \in ClientIx : ClientId(b, i) = RouterDest(msg)
    THEN LET i == CHOOSE k \in ClientIx : ClientId(b, k) = RouterDest(msg)
         IN  [cb EXCEPT ![b][i] = Append(@, RouterWire(msg))]
    ELSE cb

\* cloudfe is bound; the cloudbe sockets of the brokers that list b connect to it.
CloudFeSend(b, msg, q) ==
    LET p == RouterDest(msg)
    IN  IF p \in Names /\ b \in Range(peers[p]) /\ ~Gone(p)
        THEN [q EXCEPT ![p] = Append(@, RouterRecv(b, RouterWire(msg)))]
        ELSE q

\* cloudbe connects to the cloudfe of every peer.
CloudBeSend(b, msg, q) ==
    LET p == RouterDest(msg)
    IN  IF p \in Names /\ p \in Range(peers[b]) /\ ~Gone(p)
        THEN [q EXCEPT ![p] = Append(@, RouterRecv(b, RouterWire(msg)))]
        ELSE q

---------------------------------------------------------------------------
\* The count of the requests and the history of the queue.  A client asks for
\* ever (while True); a bounded run stops the clients after MaxReqs requests,
\* an unbounded one counts and keeps nothing.

MayAsk == bounded => nsent < MaxReqs

Asked == IF bounded THEN nsent + 1 ELSE nsent

Kept(history, address) == IF bounded THEN Append(history, address) ELSE history

---------------------------------------------------------------------------
\* What a step read and sent.

Event(b, op, ws, evs, from, got, to, put) ==
    [b |-> b, op |-> op, ws |-> ws, evs |-> evs, from |-> from, got |-> got,
     to |-> to, put |-> put]

NoEvent == Event("", "none", <<>>, {}, "none", <<>>, "none", <<>>)

\* The peer lists broker "A" may be started with: sys.argv[2:].
PeerLists == {<<>>, <<"B">>}

Init ==
    /\ \E ps \in PeerLists : peers = [b \in Names |-> IF b = "A" THEN ps ELSE <<"A">>]
    /\ pc = [b \in Names |-> IF b = "A" THEN "init" ELSE "ext"]
    /\ workers = [b \in Names |-> <<>>]
    /\ localfe = [b \in Names |-> <<>>]
    /\ localbe = [b \in Names |-> <<>>]
    /\ cloudfe = [b \in Names |-> <<>>]
    /\ cloudbe = [b \in Names |-> <<>>]
    /\ wbox = [b \in Names |-> [i \in WorkerIx |-> <<>>]]
    /\ wpc = [b \in Names |-> [i \in WorkerIx |-> "off"]]
    /\ cbox = [b \in Names |-> [i \in ClientIx |-> <<>>]]
    /\ cpc = [b \in Names |-> [i \in ClientIx |-> "off"]]
    /\ bounded = TRUE
    /\ nsent = 0
    /\ pushed = [b \in Names |-> <<>>]
    /\ routed = [b \in Names |-> <<>>]
    /\ last = NoEvent

---------------------------------------------------------------------------
\* main, up to its loop: peers[0] of an empty list raises IndexError; otherwise
\* the sockets are made and the worker and client threads are started.
Start(b) ==
    /\ pc[b] = "init"
    /\ IF peers[b] = <<>>
       THEN /\ pc' = [pc EXCEPT ![b] = "crashed"]
            /\ UNCHANGED <<wpc, cpc>>
       ELSE /\ pc' = [pc EXCEPT ![b] = "poll"]
            /\ wpc' = [wpc EXCEPT ![b] = [i \in WorkerIx |-> "start"]]
            /\ cpc' = [cpc EXCEPT ![b] = [i \in ClientIx |-> "send"]]
    /\ last' = Event(b, "start", <<>>, {}, "none", <<>>, "none", <<>>)
    /\ UNCHANGED <<peers, bounded, workers, localfe, localbe, cloudfe, cloudbe, wbox,
                   cbox, nsent, pushed, routed>>

\* pollerbe.poll: the backend sockets with input
BackendEvents(b) ==
    {ch \in {"localbe", "cloudbe"} :
        (ch = "localbe" /\ localbe[b] # <<>>) \/ (ch = "cloudbe" /\ cloudbe[b] # <<>>)}

\* Route a reply (msg is not None): the new cloudbe queues and client boxes.
ForwardCloud(b, msg, fwd, q) ==
    IF fwd /\ ReplyChannel(msg, peers[b]) = "cloudfe" THEN CloudFeSend(b, msg, q) ELSE q

ForwardLocal(b, msg, fwd, cb) ==
    IF fwd /\ ReplyChannel(msg, peers[b]) = "localfe" THEN LocalFeSend(b, msg, cb) ELSE cb

\* One pass of the loop down to the drain loop, when localbe is in events.
LocalReply(b) ==
    /\ pc[b] = "poll"
    /\ BackendChoice(BackendEvents(b)) = "localbe"
    /\ LET got == Head(localbe[b])
           msg == Stripped(got)
           fwd == ~IsReady(msg)
       IN  /\ localbe' = [localbe EXCEPT ![b] = Tail(@)]
           /\ workers' = [workers EXCEPT ![b] = PushWorker(@, Address(got))]
           /\ pushed' = [pushed EXCEPT ![b] = Kept(@, Address(got))]
           /\ cloudbe' = ForwardCloud(b, msg, fwd, cloudbe)
           /\ cbox' = ForwardLocal(b, msg, fwd, cbox)
           /\ last' = Event(b, "reply", workers[b], BackendEvents(b), "localbe", got,
                            IF fwd THEN ReplyChannel(msg, peers[b]) ELSE "none",
                            IF fwd THEN msg ELSE <<>>)
    /\ pc' = [pc EXCEPT ![b] = "drain"]
    /\ UNCHANGED <<peers, bounded, localfe, cloudfe, wbox, wpc, cpc, nsent, routed>>

\* The same pass when cloudbe is in events and localbe is not.
CloudReply(b) ==
    /\ pc[b] = "poll"
    /\ BackendChoice(BackendEvents(b)) = "cloudbe"
    /\ LET got == Head(cloudbe[b])
           msg == Stripped(got)
       IN  /\ cloudbe' = ForwardCloud(b, msg, TRUE, [cloudbe EXCEPT ![b] = Tail(@)])
           /\ cbox' = ForwardLocal(b, msg, TRUE, cbox)
           /\ last' = Event(b, "reply", workers[b], BackendEvents(b), "cloudbe", got,
                            ReplyChannel(msg, peers[b]), msg)
    /\ pc' = [pc EXCEPT ![b] = "drain"]
    /\ UNCHANGED <<peers, bounded, workers, localfe, localbe, cloudfe, wbox, wpc, cpc,
                   nsent, pushed, routed>>

\* poll(None) whatever workers holds: the wait never times out.
NeverTimesOut(b) ==
    /\ pc[b] = "poll"
    /\ FALSE
    /\ UNCHANGED vars

\* The same pass when the poll times out: poll(1000) returns nothing, which
\* it can only when workers is not empty (poll(None) waits).
BackendTimeout(b) ==
    /\ pc[b] = "poll"
    /\ BackendEvents(b) = {}
    /\ workers[b] # <<>>
    /\ pc' = [pc EXCEPT ![b] = "drain"]
    /\ last' = Event(b, "reply", workers[b], {}, "none", <<>>, "none", <<>>)
    /\ UNCHANGED <<peers, bounded, workers, localfe, localbe, cloudfe, cloudbe, wbox, wpc,
                   cbox, cpc, nsent, pushed, routed>>

\* except zmq.ZMQError: break
InterruptIgnored(b) ==
    /\ pc[b] = "poll"
    /\ pc' = [pc EXCEPT ![b] = "drain"]
    /\ last' = Event(b, "interrupt", workers[b], {}, "none", <<>>, "none", <<>>)
    /\ UNCHANGED <<peers, bounded, workers, localfe, localbe, cloudfe, cloudbe, wbox, wpc,
                   cbox, cpc, nsent, pushed, routed>>

Interrupt(b) ==
    /\ pc[b] = "poll"
    /\ pc' = [pc EXCEPT ![b] = "done"]
    /\ last' = Event(b, "interrupt", workers[b], {}, "none", <<>>, "none", <<>>)
    /\ UNCHANGED <<peers, bounded, workers, localfe, localbe, cloudfe, cloudbe, wbox, wpc,
                   cbox, cpc, nsent, pushed, routed>>

\* pollerfe.poll(0): the frontend sockets with input
FrontendEvents(b) ==
    {ch \in {"localfe", "cloudfe"} :
        (ch = "localfe" /\ localfe[b] # <<>>) \/ (ch = "cloudfe" /\ cloudfe[b] # <<>>)}

\* One turn of the drain loop: leave it when workers is empty or no frontend
\* has input, else read one request (cloudfe first) and send it to a random
\* peer or to the worker at the front of the queue.  workers.pop(0) of an
\* empty list raises IndexError.
DrainStep(b) ==
    /\ pc[b] = "drain"
    /\ LET ws == workers[b]
           events == FrontendEvents(b)
           ch == FrontendChoice(events)
           got == IF ch = "cloudfe" THEN Head(cloudfe[b]) ELSE Head(localfe[b])
       IN  IF ~HasCapacity(ws)
           THEN /\ pc' = [pc EXCEPT ![b] = "poll"]
                /\ last' = Event(b, "drain", ws, {}, "none", <<>>, "none", <<>>)
                /\ UNCHANGED <<workers, localfe, cloudfe, wbox, routed>>
           ELSE IF ch = "none"
           THEN /\ pc' = [pc EXCEPT ![b] = "poll"]
                /\ last' = Event(b, "drain", ws, events, "none", <<>>, "none", <<>>)
                /\ UNCHANGED <<workers, localfe, cloudfe, wbox, routed>>
           ELSE /\ localfe' = IF ch = "localfe" THEN [localfe EXCEPT ![b] = Tail(@)] ELSE localfe
                /\ \E draw \in Draws :
                     IF Offload(Reroutable(ch), peers[b], draw)
                     THEN \E k \in 1 .. Len(peers[b]) :
                            LET out == Readdress(peers[b][k], got)
                            IN  /\ cloudfe' = CloudBeSend(b, out,
                                      IF ch = "cloudfe" THEN [cloudfe EXCEPT ![b] = Tail(@)]
                                      ELSE cloudfe)
                                /\ last' = Event(b, "drain", ws, events, ch, got, "cloudbe", out)
                                /\ UNCHANGED <<pc, workers, wbox, routed>>
                     ELSE /\ cloudfe' = IF ch = "cloudfe" THEN [cloudfe EXCEPT ![b] = Tail(@)]
                                        ELSE cloudfe
                          /\ IF ws = <<>>
                             THEN /\ pc' = [pc EXCEPT ![b] = "crashed"]
                                  /\ last' = Event(b, "drain", ws, events, ch, got, "none", <<>>)
                                  /\ UNCHANGED <<workers, wbox, routed>>
                             ELSE LET out == Readdress(FrontWorker(ws), got)
                                  IN  /\ workers' = [workers EXCEPT ![b] = RestWorkers(ws)]
                                      /\ routed' = [routed EXCEPT ![b] = Kept(@, FrontWorker(ws))]
                                      /\ wbox' = LocalBeSend(b, out, wbox)
                                      /\ last' = Event(b, "drain", ws, events, ch, got, "localbe", out)
                                      /\ UNCHANGED pc
    /\ UNCHANGED <<peers, bounded, localbe, cloudbe, wpc, cbox, cpc, nsent, pushed>>

---------------------------------------------------------------------------
\* worker_task and client_task: daemon threads of the broker's process.

\* worker.send(b"READY")
WorkerReady(b, i) ==
    /\ Running(b)
    /\ wpc[b][i] = "start"
    /\ wpc' = [wpc EXCEPT ![b][i] = "serve"]
    /\ localbe' = [localbe EXCEPT
                     ![b] = Append(@, RouterRecv(WorkerId(b, i), ReqWire(<<"READY">>)))]
    /\ last' = NoEvent
    /\ UNCHANGED <<peers, bounded, pc, workers, localfe, cloudfe, cloudbe, wbox, cbox, cpc,
                   nsent, pushed, routed>>

\* msg = worker.recv_multipart(); msg[-1] = b"OK"; worker.send_multipart(msg)
WorkerServe(b, i) ==
    /\ Running(b)
    /\ wpc[b][i] = "serve"
    /\ wbox[b][i] # <<>>
    /\ LET msg == ReqRecv(Head(wbox[b][i]))
           reply == [msg EXCEPT ![Len(msg)] = "OK"]
       IN  localbe' = [localbe EXCEPT
                         ![b] = Append(@, RouterRecv(WorkerId(b, i), ReqWire(reply)))]
    /\ wbox' = [wbox EXCEPT ![b][i] = Tail(@)]
    /\ last' = NoEvent
    /\ UNCHANGED <<peers, bounded, pc, workers, localfe, cloudfe, cloudbe, wpc, cbox, cpc,
                   nsent, pushed, routed>>

\* client.send(b"HELLO")
ClientSend(b, i) ==
    /\ Running(b)
    /\ cpc[b][i] = "send"
    /\ MayAsk
    /\ cpc' = [cpc EXCEPT ![b][i] = "recv"]
    /\ nsent' = Asked
    /\ localfe' = [localfe EXCEPT
                     ![b] = Append(@, RouterRecv(ClientId(b, i), ReqWire(<<"HELLO">>)))]
    /\ last' = NoEvent
    /\ UNCHANGED <<peers, bounded, pc, workers, localbe, cloudfe, cloudbe, wbox, wpc, cbox,
                   pushed, routed>>

\* reply = client.recv(); tprint(...); time.sleep(1)
ClientRecv(b, i) ==
    /\ Running(b)
    /\ cpc[b][i] = "recv"
    /\ cbox[b][i] # <<>>
    /\ cpc' = [cpc EXCEPT ![b][i] = "send"]
    /\ cbox' = [cbox EXCEPT ![b][i] = Tail(@)]
    /\ last' = NoEvent
    /\ UNCHANGED <<peers, bounded, pc, workers, localfe, localbe, cloudfe, cloudbe, wbox, wpc,
                   nsent, pushed, routed>>

---------------------------------------------------------------------------
\* A broker that runs elsewhere ("ext") runs the same main: what reaches the
\* cloud sockets of the others is what its loop, workers and clients produce.

\* msg[-1] = b"OK"
WorkerReply(msg) == [msg EXCEPT ![Len(msg)] = "OK"]

\* Its drain loop offloads a request of one of its clients to a peer.
PeerAsk(p, i) ==
    /\ pc[p] = "ext"
    /\ cpc[p][i] # "recv"
    /\ MayAsk
    /\ \E k \in 1 .. Len(peers[p]) :
          LET got == RouterRecv(ClientId(p, i), ReqWire(<<"HELLO">>))
          IN  cloudfe' = CloudBeSend(p, Readdress(peers[p][k], got), cloudfe)
    /\ cpc' = [cpc EXCEPT ![p][i] = "recv"]
    /\ nsent' = Asked
    /\ last' = NoEvent
    /\ UNCHANGED <<peers, bounded, pc, workers, localfe, localbe, cloudbe, wbox, wpc, cbox,
                   pushed, routed>>

\* It reads a request from its cloudfe, one of its workers serves it, and it
\* routes the worker's reply: to cloudfe, as the leading frame is a peer.
PeerServe(p) ==
    /\ pc[p] = "ext"
    /\ cloudfe[p] # <<>>
    /\ cloudbe' = ForwardCloud(p, WorkerReply(Head(cloudfe[p])), TRUE, cloudbe)
    /\ cloudfe' = [cloudfe EXCEPT ![p] = Tail(@)]
    /\ last' = NoEvent
    /\ UNCHANGED <<peers, bounded, pc, workers, localfe, localbe, wbox, wpc, cbox, cpc,
                   nsent, pushed, routed>>

\* It reads a reply from its cloudbe and routes it to its client, which goes
\* on to its next request.
PeerTake(p) ==
    /\ pc[p] = "ext"
    /\ cloudbe[p] # <<>>
    /\ cloudbe' = [cloudbe EXCEPT ![p] = Tail(@)]
    /\ cpc' = [cpc EXCEPT ![p] =
                  [i \in ClientIx |->
                     IF ClientId(p, i) = Stripped(Head(cloudbe[p]))[1] THEN "send" ELSE @[i]]]
    /\ last' = NoEvent
    /\ UNCHANGED <<peers, bounded, pc, workers, localfe, localbe, cloudfe, wbox, wpc, cbox,
                   nsent, pushed, routed>>

Next ==
    \E b \in Names :
        \/ Start(b)
        \/ LocalReply(b)
        \/ CloudReply(b)
        \/ BackendTimeout(b)
        \/ Interrupt(b)
        \/ DrainStep(b)
        \/ \E i \in WorkerIx : WorkerReady(b, i) \/ WorkerServe(b, i)
        \/ \E i \in ClientIx : ClientSend(b, i) \/ ClientRecv(b, i)
        \/ \E i \in ClientIx : PeerAsk(b, i)
        \/ PeerServe(b)
        \/ PeerTake(b)

Spec == Init /\ [][Next]_vars

\* The steps of main's loop, and the program with a main thread that is not
\* held back for ever: while True runs on as long as a step of it is possible.
Loop(b) == LocalReply(b) \/ CloudReply(b) \/ BackendTimeout(b) \/ DrainStep(b)

LiveSpec == Spec /\ \A b \in Names : WF_vars(Loop(b))

\* localbe is a bound ROUTER socket and main reads whatever arrives on it:
\* here a sender under a worker's identity repeats READY without having been
\* sent a request, which worker_task never does.  The repeats so far are the
\* messages sent on localbe beyond one READY per worker and one reply per
\* request answered.
Repeats(b) ==
    LET sent == Len(pushed[b]) + Len(localbe[b])
        held == Cardinality({<<i, k>> \in WorkerIx \X (1 .. MaxReqs) : k <= Len(wbox[b][i])})
        started == Cardinality({i \in WorkerIx : wpc[b][i] = "serve"})
    IN  (sent + held) - (started + Len(routed[b]))

WorkerResend(b, i) ==
    /\ Running(b)
    /\ wpc[b][i] = "serve"
    /\ Repeats(b) < MaxRepeats
    /\ localbe' = [localbe EXCEPT
                     ![b] = Append(@, RouterRecv(WorkerId(b, i), ReqWire(<<"READY">>)))]
    /\ last' = NoEvent
    /\ UNCHANGED <<peers, bounded, pc, workers, localfe, cloudfe, cloudbe, wbox, wpc, cbox, cpc,
                   nsent, pushed, routed>>

\* The program with such senders on its local-backend.
NextLoose == Next \/ \E b \in Names : \E i \in WorkerIx : WorkerResend(b, i)

LooseSpec == Init /\ [][NextLoose]_vars

\* Two brokers that both run main, each started with the other as its peer.
CloudInit(modes) ==
    /\ peers = [b \in Names |-> IF b = "A" THEN <<"B">> ELSE <<"A">>]
    /\ pc = [b \in Names |-> "init"]
    /\ workers = [b \in Names |-> <<>>]
    /\ localfe = [b \in Names |-> <<>>]
    /\ localbe = [b \in Names |-> <<>>]
    /\ cloudfe = [b \in Names |-> <<>>]
    /\ cloudbe = [b \in Names |-> <<>>]
    /\ wbox = [b \in Names |-> [i \in WorkerIx |-> <<>>]]
    /\ wpc = [b \in Names |-> [i \in WorkerIx |-> "off"]]
    /\ cbox = [b \in Names |-> [i \in ClientIx |-> <<>>]]
    /\ cpc = [b \in Names |-> [i \in ClientIx |-> "off"]]
    /\ bounded \in modes
    /\ nsent = 0
    /\ pushed = [b \in Names |-> <<>>]
    /\ routed = [b \in Names |-> <<>>]
    /\ last = NoEvent

InitCloud == CloudInit({TRUE})

NextCloud ==
    \E b \in Names :
        \/ Start(b)
        \/ LocalReply(b)
        \/ CloudReply(b)
        \/ BackendTimeout(b)
        \/ Interrupt(b)
        \/ DrainStep(b)
        \/ \E i \in WorkerIx : WorkerReady(b, i) \/ WorkerServe(b, i)
        \/ \E i \in ClientIx : ClientSend(b, i) \/ ClientRecv(b, i)

CloudSpec == InitCloud /\ [][NextCloud]_vars

\* The two brokers uninterrupted, with clients that stop after MaxReqs
\* requests or ask for ever, and every thread scheduled again and again: a
\* main, a worker or a client whose next step stays possible takes it.
NextRun ==
    \E b \in Names :
        \/ Start(b)
        \/ LocalReply(b)
        \/ CloudReply(b)
        \/ BackendTimeout(b)
        \/ DrainStep(b)
        \/ \E i \in WorkerIx : WorkerReady(b, i) \/ WorkerServe(b, i)
        \/ \E i \in ClientIx : ClientSend(b, i) \/ ClientRecv(b, i)

\* The threads: main, each worker_task and each client_task.
Main(b) == Start(b) \/ Loop(b)

Worker(b, i) == WorkerReady(b, i) \/ WorkerServe(b, i)

Client(b, i) == ClientSend(b, i) \/ ClientRecv(b, i)

Fairness ==
    \A b \in Names :
        /\ WF_vars(Main(b))
        /\ \A i \in WorkerIx : WF_vars(Worker(b, i))
        /\ \A i \in ClientIx : WF_vars(Client(b, i))

FairCloudSpec == CloudInit(BOOLEAN) /\ [][NextRun]_vars /\ Fairness

---------------------------------------------------------------------------
\* Properties of the routing loop.

\* The step is one of broker b's own, of the given kind.
StepOf(b, op) == last'.b = b /\ last'.op = op

\* What a step hands to the sockets of others: a message on b's cloudfe goes to
\* the cloudbe of a peer, one on its localfe to a client, one on its localbe
\* to a worker, one on its cloudbe to the cloudfe of a peer.
OnCloudFe(b, msg) ==
    \E p \in Names \ {b} : cloudbe'[p] = Append(cloudbe[p], <<b>> \o Tail(msg))

NoneOnCloudFe(b) == \A p \in Names \ {b} : cloudbe'[p] = cloudbe[p]

OnLocalFe(b, msg) ==
    \E i \in ClientIx : /\ msg[1] = ClientId(b, i)
                        /\ cbox'[b][i] = Append(cbox[b][i], Tail(msg))

NoneOnLocalFe(b) == cbox'[b] = cbox[b]

OnLocalBe(b, msg) ==
    \E i \in WorkerIx : /\ msg[1] = WorkerId(b, i)
                        /\ wbox'[b][i] = Append(wbox[b][i], Tail(msg))

NoneOnLocalBe(b) == wbox'[b] = wbox[b]

OnCloudBe(b, msg) ==
    \E p \in Names \ {b} : cloudfe'[p] = Append(cloudfe[p], <<b>> \o Tail(msg))

NoneOnCloudBe(b) == \A p \in Names \ {b} : cloudfe'[p] = cloudfe[p]

\* C1: the addresses requests were sent to on local-backend are, in order, the
\* addresses appended to the worker queue: what was routed followed by what is
\* still queued is what was pushed, and a request sent on local-backend bears
\* the address that was at the front of the queue.
C1_FifoOrder ==
    \A b \in Names :
        /\ routed[b] \o workers[b] = pushed[b]
        /\ (last.b = b /\ last.to = "localbe") =>
              /\ last.put[1] = last.ws[1]
              /\ routed[b][Len(routed[b])] = last.put[1]

\* Two requests have gone to two different workers, the second taken from a
\* queue of two.
C1_Witness ==
    /\ last.b = "A" /\ last.to = "localbe" /\ Len(last.ws) = 2
    /\ Len(routed["A"]) = 2
    /\ routed["A"][1] # routed["A"][2]
    /\ last.ws[1] # last.ws[2]

\* C2: a pass that reads a message other than READY from local-backend or
\* cloud-backend sends what follows its two leading frames on exactly one
\* frontend in that pass: on cloud-frontend if its first frame is one of the
\* peers, on local-frontend if not.
C2_ReplyExclusiveTotal ==
    [][\A b \in Names :
         (StepOf(b, "reply") /\ last'.from # "none") =>
            LET got == IF last'.from = "localbe" THEN Head(localbe[b]) ELSE Head(cloudbe[b])
                msg == SubSeq(got, 3, Len(got))
                ready == last'.from = "localbe" /\ msg[Len(msg)] = "READY"
            IN  /\ last'.got = got
                /\ ~ready =>
                      /\ last'.put = msg
                      /\ IF msg[1] \in Range(peers[b])
                         THEN /\ last'.to = "cloudfe"
                              /\ OnCloudFe(b, msg)
                              /\ NoneOnLocalFe(b)
                         ELSE /\ last'.to = "localfe"
                              /\ OnLocalFe(b, msg)
                              /\ NoneOnCloudFe(b)]_vars

\* A worker's reply to a request of a peer has gone out on cloud-frontend.
C2_Witness ==
    /\ last.op = "reply" /\ last.from = "localbe" /\ last.to = "cloudfe"
    /\ last.put[1] \in Range(peers[last.b])
    /\ cloudbe[last.put[1]] # <<>>

\* C3: while the worker queue is empty the broker reads nothing from
\* local-frontend or cloud-frontend and sends nothing on local-backend or
\* cloud-backend: a drain turn that finds the queue empty leaves the loop and
\* the pending requests where they are, and workers.pop(0) is never run on an
\* empty queue.
C3_NoRoutingWithoutCapacity ==
    [][\A b \in Names :
         /\ (StepOf(b, "drain") /\ workers[b] = <<>>) =>
               /\ localfe'[b] = localfe[b]
               /\ cloudfe'[b] = cloudfe[b]
               /\ NoneOnLocalBe(b)
               /\ NoneOnCloudBe(b)
               /\ last'.from = "none" /\ last'.to = "none"
               /\ pc'[b] = "poll"
         /\ (pc[b] # "ext" /\ workers[b] = <<>>) =>
               /\ Len(localfe'[b]) >= Len(localfe[b])
               /\ Len(cloudfe'[b]) >= Len(cloudfe[b])
         /\ StepOf(b, "drain") => pc'[b] # "crashed"]_vars

\* The drain loop was left with the queue empty and a request pending.
C3_Witness ==
    /\ last.op = "drain" /\ last.ws = <<>> /\ pc[last.b] = "poll"
    /\ workers[last.b] = <<>>
    /\ (localfe[last.b] # <<>> \/ cloudfe[last.b] # <<>>)

\* C4: a drain turn with the worker queue non-empty and a message pending on
\* cloud-frontend reads that message; a message is read from local-frontend
\* only in a turn where cloud-frontend has nothing pending.
C4_CloudFrontendFirst ==
    [][\A b \in Names :
         (StepOf(b, "drain") /\ workers[b] # <<>>) =>
            /\ cloudfe[b] # <<>> =>
                  /\ last'.from = "cloudfe"
                  /\ last'.got = Head(cloudfe[b])
                  /\ cloudfe'[b] = Tail(cloudfe[b])
                  /\ localfe'[b] = localfe[b]
            /\ localfe'[b] # localfe[b] =>
                  /\ cloudfe[b] = <<>>
                  /\ last'.from = "localfe"
                  /\ last'.got = Head(localfe[b])
                  /\ localfe'[b] = Tail(localfe[b])]_vars

\* Both frontends had a message pending and the one of cloud-frontend was read.
C4_Witness ==
    /\ last.op = "drain" /\ last.evs = {"localfe", "cloudfe"}
    /\ last.from = "cloudfe"
    /\ localfe[last.b] # <<>>

\* The workers of b that have sent READY, and the scenario of a single one.
Registered(b) == {i \in WorkerIx : wpc[b][i] = "serve"}

OneWorker(b, i) == Registered(b) = {i}

LocalClients(b) == {ClientId(b, i) : i \in ClientIx}

\* C5, as claimed: with one worker that has sent READY, a client request read
\* from local-frontend is routed to that worker and the queue is empty
\* right after.
C5_AlwaysRoutedToWorker ==
    \A b \in Names : \A i \in WorkerIx :
        (OneWorker(b, i) /\ last.b = b /\ last.op = "drain" /\ last.from = "localfe") =>
            /\ last.to = "localbe"
            /\ last.put = <<WorkerId(b, i), "">> \o last.got
            /\ workers[b] = <<>>

\* C5, amended: with one worker that has sent READY, a client request [HELLO]
\* read from local-frontend is either offloaded to a peer, which leaves the
\* queue as it was, or routed to that worker, which leaves the queue empty;
\* the worker's reply [OK] to a local client, and the reply that comes back
\* from the peer, is sent on local-frontend to the client it names, which is
\* waiting for it, and after the worker's reply is processed the queue holds
\* the worker again.
C5_SingleWorkerScenario ==
    \A b \in Names : \A i \in WorkerIx :
        (OneWorker(b, i) /\ last.b = b) =>
            /\ (last.op = "drain" /\ last.from = "localfe") =>
                  /\ last.got[1] \in LocalClients(b)
                  /\ last.got[Len(last.got)] = "HELLO"
                  /\ last.ws = <<WorkerId(b, i)>>
                  /\ IF last.to = "localbe"
                     THEN /\ last.put = <<WorkerId(b, i), "">> \o last.got
                          /\ wbox[b][i] = << <<"">> \o last.got >>
                          /\ workers[b] = <<>>
                     ELSE /\ last.to = "cloudbe"
                          /\ workers[b] = last.ws
            /\ (last.op = "reply" /\ last.from = "localbe"
                  /\ Len(last.got) > 3 /\ last.got[3] \in LocalClients(b)) =>
                  /\ last.got[1] = WorkerId(b, i)
                  /\ last.ws = <<>>
                  /\ workers[b] = <<WorkerId(b, i)>>
                  /\ last.to = "localfe"
            /\ (last.op = "reply" /\ last.from = "cloudbe") =>
                  /\ last.to = "localfe"
                  /\ workers[b] = last.ws
            /\ last.to = "localfe" =>
                  \E c \in ClientIx :
                      /\ last.put = <<ClientId(b, c), "", "OK">>
                      /\ cpc[b][c] = "recv"
                      /\ cbox[b][c] = << <<"", "OK">> >>

\* The single worker has served the client's request and its reply has gone
\* out on local-frontend, the worker back in the queue.
C5_Witness ==
    /\ OneWorker("A", 0)
    /\ last.b = "A" /\ last.op = "reply" /\ last.from = "localbe"
    /\ last.got = <<WorkerId("A", 0), "", ClientId("A", 0), "", "OK">>
    /\ last.to = "localfe"
    /\ routed["A"] = <<WorkerId("A", 0)>>
    /\ workers["A"] = <<WorkerId("A", 0)>>

\* C6: a broker started with an empty peer list runs its event loop, routes
\* every request it reads from local-frontend to a local worker and sends
\* nothing on cloud-backend.
C6_ZeroPeersRun ==
    \A b \in Names :
        (peers[b] = <<>> /\ pc[b] # "init") =>
            /\ pc[b] # "crashed"
            /\ (last.b = b /\ last.from = "localfe") => last.to = "localbe"
            /\ last.b = b => last.to # "cloudbe"

\* A worker is idle when it waits for a request and none is on its way to it.
Idle(b, i) == wpc[b][i] = "serve" /\ wbox[b][i] = <<>>

InQueue(b, i) == WorkerId(b, i) \in Range(workers[b])

\* A READY or a reply of the worker waits unread on local-backend.
Unread(b, i) == \E k \in 1 .. Len(localbe[b]) : localbe[b][k][1] = WorkerId(b, i)

\* C7, as claimed: a worker's address is in the queue if and only if the
\* worker is idle and has not been assigned a request since it became idle.
C7_InQueueIffIdle ==
    \A b \in Names : \A i \in WorkerIx : InQueue(b, i) <=> Idle(b, i)

\* C7, amended: a worker's address is in the queue if and only if the worker
\* is idle, has not been assigned a request since it became idle, and the
\* broker has read the READY or the reply by which it became idle.
C7_QueueMembership ==
    \A b \in Names : \A i \in WorkerIx :
        InQueue(b, i) <=> (Idle(b, i) /\ ~Unread(b, i))

\* One worker is back in the queue after its reply was read while the other,
\* which has sent READY too, is busy with a request.
C7_Witness ==
    /\ InQueue("A", 0) /\ Idle("A", 0)
    /\ ~InQueue("A", 1) /\ ~Idle("A", 1) /\ wpc["A"][1] = "serve"
    /\ Len(pushed["A"]) >= 3

\* C8: a pass that reads a message from local-backend appends the sender's
\* address to the worker queue; if the last frame is READY it sends nothing
\* on local-frontend or cloud-frontend, and otherwise it forwards the frames
\* that follow the address and the delimiter.
C8_ReadyIsRegistrationOnly ==
    [][\A b \in Names :
         (StepOf(b, "reply") /\ last'.from = "localbe") =>
            LET got == Head(localbe[b])
                msg == SubSeq(got, 3, Len(got))
            IN  /\ localbe'[b] = Tail(localbe[b])
                /\ workers'[b] = Append(workers[b], got[1])
                /\ IF msg[Len(msg)] = "READY"
                   THEN /\ last'.to = "none"
                        /\ NoneOnLocalFe(b)
                        /\ NoneOnCloudFe(b)
                   ELSE /\ last'.to \in {"localfe", "cloudfe"}
                        /\ last'.put = msg
                        /\ OnLocalFe(b, msg) \/ OnCloudFe(b, msg)]_vars

\* A READY was read: the worker is in the queue and nothing was forwarded.
C8_Witness ==
    /\ last.op = "reply" /\ last.from = "localbe"
    /\ last.got = <<WorkerId("A", 1), "", "READY">>
    /\ last.to = "none"
    /\ workers["A"] = <<WorkerId("A", 0), WorkerId("A", 1)>>

\* C9: the broker sends on cloud-backend only in a drain turn that read the
\* message from local-frontend, with a non-empty peer list and one of the
\* peers as the prepended address; a request read from cloud-frontend goes to
\* the worker at the front of the queue on local-backend, never on
\* cloud-backend.
C9_OnlyLocalRequestsOffloaded ==
    [][\A b \in Names :
         /\ (last'.b = b /\ last'.op # "drain") =>
               /\ last'.to # "cloudbe"
               /\ NoneOnCloudBe(b)
         /\ StepOf(b, "drain") =>
               /\ (last'.to = "cloudbe" \/ ~NoneOnCloudBe(b)) =>
                     /\ last'.from = "localfe"
                     /\ localfe'[b] = Tail(localfe[b])
                     /\ cloudfe'[b] = cloudfe[b]
                     /\ peers[b] # <<>>
                     /\ last'.put[1] \in Range(peers[b])
                     /\ last'.put = <<last'.put[1], "">> \o Head(localfe[b])
                     /\ OnCloudBe(b, last'.put)
                     /\ NoneOnLocalBe(b)
               /\ (last'.from = "cloudfe" \/ cloudfe'[b] # cloudfe[b]) =>
                     /\ cloudfe'[b] = Tail(cloudfe[b])
                     /\ last'.to = "localbe"
                     /\ last'.put = <<Head(workers[b]), "">> \o Head(cloudfe[b])
                     /\ OnLocalBe(b, last'.put)
                     /\ NoneOnCloudBe(b)]_vars

\* A request of a peer went to a local worker while a request of the local
\* client, offloaded before, waits at the peer.
C9_Witness ==
    /\ last.b = "A" /\ last.op = "drain"
    /\ last.from = "cloudfe" /\ last.to = "localbe"
    /\ cloudfe["B"] = << <<"A", "", ClientId("A", 0), "", "HELLO">> >>

\* C11: with workers that run worker_task, no worker address occurs more than
\* once in the broker's worker queue, and the queue is never longer than the
\* number of workers.
C11_QueueUniqueness ==
    \A b \in Names :
        /\ \A i \in WorkerIx : Count(WorkerId(b, i), workers[b]) <= 1
        /\ Len(workers[b]) <= NbrWorkers

\* Every worker is in the queue, one of them for the second time: it was
\* routed to, and its reply was read.
C11_Witness ==
    /\ Len(workers["A"]) = NbrWorkers
    /\ routed["A"] # <<>>
    /\ last.b = "A" /\ last.op = "reply" /\ last.from = "localbe"
    /\ last.got[1] \in Range(routed["A"])

\* C12: a drain turn that sends the request it read to a peer on cloud-backend
\* leaves the worker queue as it was and sends nothing on local-backend; a
\* drain turn that sends it to a local worker removes the front element of
\* the queue and nothing else, and the request goes to that worker alone.
C12_OffloadKeepsCapacity ==
    [][\A b \in Names :
         StepOf(b, "drain") =>
            /\ (last'.to = "cloudbe" \/ ~NoneOnCloudBe(b)) =>
                  /\ workers'[b] = workers[b]
                  /\ NoneOnLocalBe(b)
            /\ (last'.to = "localbe" \/ ~NoneOnLocalBe(b)) =>
                  /\ workers[b] # <<>>
                  /\ workers'[b] = Tail(workers[b])
                  /\ \E i \in WorkerIx :
                        /\ WorkerId(b, i) = Head(workers[b])
                        /\ Len(wbox'[b][i]) = Len(wbox[b][i]) + 1
                        /\ \A j \in WorkerIx \ {i} : wbox'[b][j] = wbox[b][j]
                  /\ NoneOnCloudBe(b)
            /\ last'.to = "none" => workers'[b] = workers[b]]_vars

\* A request was offloaded with two workers queued, and both are still there.
C12_Witness ==
    /\ last.b = "A" /\ last.op = "drain" /\ last.to = "cloudbe"
    /\ Len(last.ws) = 2
    /\ workers["A"] = last.ws
    /\ cloudfe["B"] # <<>>

\* C13: a pass of the loop reads at most one message from the two backend
\* sockets; if local-backend has a message it reads that one and leaves
\* cloud-backend alone, it reads cloud-backend only when local-backend has
\* none, and the drain turns of the pass read neither.
C13_OneBackendMessageLocalFirst ==
    [][\A b \in Names :
         /\ StepOf(b, "reply") =>
               /\ Len(localbe'[b]) + Len(cloudbe'[b]) + 1 >= Len(localbe[b]) + Len(cloudbe[b])
               /\ localbe[b] # <<>> =>
                     /\ last'.from = "localbe"
                     /\ last'.got = Head(localbe[b])
                     /\ localbe'[b] = Tail(localbe[b])
                     /\ cloudbe'[b] = cloudbe[b]
               /\ (last'.from = "cloudbe" \/ cloudbe'[b] # cloudbe[b]) =>
                     /\ localbe[b] = <<>>
                     /\ last'.got = Head(cloudbe[b])
                     /\ cloudbe'[b] = Tail(cloudbe[b])
                     /\ localbe'[b] = localbe[b]
         /\ (last'.b = b /\ last'.op # "reply") =>
               /\ localbe'[b] = localbe[b]
               /\ cloudbe'[b] = cloudbe[b]]_vars

\* Both backends had a message: the one of local-backend was read, the one of
\* cloud-backend is still there.
C13_Witness ==
    /\ last.b = "A" /\ last.op = "reply"
    /\ last.evs = {"localbe", "cloudbe"}
    /\ last.from = "localbe"
    /\ cloudbe["A"] # <<>>

\* The messages of a queue that broker b has sent: their first frame is b.
SentBy(b, q) == Cardinality({k \in 1 .. Len(q) : q[k][1] = b})

\* Broker b reads nothing, sends nothing and leaves its worker queue alone.
Quiet(b) ==
    /\ workers'[b] = workers[b]
    /\ Len(localfe'[b]) >= Len(localfe[b])
    /\ Len(cloudfe'[b]) >= Len(cloudfe[b])
    /\ Len(localbe'[b]) >= Len(localbe[b])
    /\ Len(cloudbe'[b]) >= Len(cloudbe[b])
    /\ NoneOnLocalFe(b)
    /\ NoneOnLocalBe(b)
    /\ \A p \in Names \ {b} :
          /\ SentBy(b, cloudfe'[p]) <= SentBy(b, cloudfe[p])
          /\ SentBy(b, cloudbe'[p]) <= SentBy(b, cloudbe[p])

\* C14: when the backend wait is interrupted the loop ends in that step, which
\* reads and sends nothing and leaves the worker queue as it is; from then on
\* the broker takes no step, reads and sends nothing and its worker queue
\* stays as it is.  The step starts at the wait, where no message is held.
C14_InterruptionTerminates ==
    [][\A b \in Names :
         /\ StepOf(b, "interrupt") =>
               /\ pc[b] = "poll"
               /\ pc'[b] = "done"
               /\ last'.got = <<>> /\ last'.put = <<>>
               /\ Quiet(b)
         /\ pc[b] = "done" =>
               /\ pc'[b] = "done"
               /\ last'.b # b
               /\ Quiet(b)]_vars

\* The loop was interrupted with a worker queued and a request pending, and
\* both are left as they were.
C14_Witness ==
    /\ pc["A"] = "done"
    /\ last.b = "A" /\ last.op = "interrupt"
    /\ workers["A"] = last.ws /\ last.ws # <<>>
    /\ localfe["A"] # <<>>

\* C17: a message the drain loop sends on local-backend or cloud-backend is
\* the chosen worker or peer address and an empty frame followed by the frames
\* of the message it read from the frontend, unchanged and in order, and that
\* is what the socket hands on; a reply forwarded on a frontend is the backend
\* message without its first two frames.
C17_FramingPreserved ==
    [][\A b \in Names :
         /\ (StepOf(b, "drain") /\ last'.to # "none") =>
               LET got == IF last'.from = "cloudfe" THEN Head(cloudfe[b]) ELSE Head(localfe[b])
               IN  /\ last'.got = got
                   /\ Len(last'.put) = Len(got) + 2
                   /\ last'.put[2] = ""
                   /\ \A k \in 1 .. Len(got) : last'.put[k + 2] = got[k]
                   /\ last'.to = "localbe" =>
                         /\ last'.put[1] = Head(workers[b])
                         /\ OnLocalBe(b, last'.put)
                   /\ last'.to = "cloudbe" =>
                         /\ last'.put[1] \in Range(peers[b])
                         /\ OnCloudBe(b, last'.put)
         /\ (StepOf(b, "reply") /\ last'.to # "none") =>
               LET got == IF last'.from = "cloudbe" THEN Head(cloudbe[b]) ELSE Head(localbe[b])
               IN  /\ last'.got = got
                   /\ Len(last'.put) + 2 = Len(got)
                   /\ \A k \in 1 .. Len(last'.put) : last'.put[k] = got[k + 2]
                   /\ last'.to = "localfe" => OnLocalFe(b, last'.put)
                   /\ last'.to = "cloudfe" => OnCloudFe(b, last'.put)]_vars

\* A request of a peer's client, read from cloud-frontend, went to a worker
\* behind the worker's address and an empty frame.
C17_Witness ==
    /\ last.b = "A" /\ last.op = "drain" /\ last.to = "localbe"
    /\ last.got = <<"B", "", ClientId("B", 0), "", "HELLO">>
    /\ last.put = <<WorkerId("A", 0), "", "B", "", ClientId("B", 0), "", "HELLO">>
    /\ wbox["A"][0] = << <<"", "B", "", ClientId("B", 0), "", "HELLO">> >>

\* The requests worker i of b has not answered yet, and its messages that b
\* has not read yet.
Outstanding(b, i) == Len(wbox[b][i])

UnreadFrom(b, i) ==
    Cardinality({k \in 1 .. Len(localbe[b]) : localbe[b][k][1] = WorkerId(b, i)})

\* C19: with workers that run worker_task, a worker address never has more
\* than one request outstanding: a request sent to a worker and the worker's
\* unread reply to it never coexist with another request to that worker, and
\* the worker a request was just sent to had none before.
C19_OneOutstandingRequest ==
    \A b \in Names : \A i \in WorkerIx :
        /\ Outstanding(b, i) + UnreadFrom(b, i) <= 1
        /\ (last.b = b /\ last.to = "localbe" /\ last.put[1] = WorkerId(b, i)) =>
              /\ wbox[b][i] = <<Tail(last.put)>>
              /\ UnreadFrom(b, i) = 0

\* A worker was sent its second request, after its reply to the first was read.
C19_Witness ==
    \E i \in WorkerIx :
        /\ Count(WorkerId("A", i), routed["A"]) = 2
        /\ Count(WorkerId("A", i), pushed["A"]) = 2
        /\ Outstanding("A", i) = 1
        /\ last.b = "A" /\ last.to = "localbe" /\ last.put[1] = WorkerId("A", i)

\* C15: a broker in its loop with a non-empty worker queue and a request
\* pending on local-frontend or cloud-frontend reads a frontend request in the
\* end, unless its wait is interrupted, whether or not a backend message ever
\* arrives; at the backend wait with no backend message, a step of the loop
\* is possible exactly when the worker queue is not empty.
C15_BoundedWait ==
    \A b \in Names :
        /\ (Running(b) /\ workers[b] # <<>> /\ FrontendEvents(b) # {})
               ~> (\/ last.b = b /\ last.op = "drain" /\ last.from # "none"
                   \/ pc[b] = "done")
        /\ []((pc[b] = "poll" /\ BackendEvents(b) = {}) =>
                 (ENABLED Loop(b) <=> workers[b] # <<>>))

\* The backend wait timed out with a request pending and a worker queued.
C15_Witness ==
    /\ last.b = "A" /\ last.op = "reply" /\ last.from = "none" /\ last.evs = {}
    /\ pc["A"] = "drain"
    /\ workers["A"] # <<>>
    /\ FrontendEvents("A") # {}

\* C16: pushes are not de-duplicated.  Where a sender repeats its message
\* under one worker address, every message read from local-backend adds one
\* more occurrence of its address to the queue, present already or not; each
\* occurrence stays until a request is routed to it; and each request routed
\* locally is sent to the address at the front, which receives it on top of
\* what it holds.
C16_DuplicatesKept ==
    \A b \in Names : \A i \in WorkerIx :
        LET a == WorkerId(b, i)
        IN  /\ Count(a, workers[b]) + Count(a, routed[b]) = Count(a, pushed[b])
            /\ (last.b = b /\ last.op = "reply" /\ last.from = "localbe" /\ last.got[1] = a) =>
                  /\ workers[b] = Append(last.ws, a)
                  /\ Count(a, workers[b]) = Count(a, last.ws) + 1
            /\ (last.b = b /\ last.to = "localbe" /\ last.ws[1] = a) =>
                  /\ last.put[1] = a
                  /\ wbox[b][i] # <<>>
                  /\ wbox[b][i][Len(wbox[b][i])] = Tail(last.put)

\* Two messages of one address were read with no request routed to it in
\* between, and the two requests routed next were both sent to it.
C16_Witness ==
    \E i \in WorkerIx :
        LET a == WorkerId("A", i)
        IN  /\ last.b = "A" /\ last.to = "localbe" /\ last.put[1] = a
            /\ pushed["A"] = <<a, a>>
            /\ routed["A"] = <<a, a>>
            /\ Len(wbox["A"][i]) = 2

\* The request of client c of broker b and the reply to it, as the client's
\* REQ socket sends and receives them through a ROUTER socket.
Hello(b, c) == <<ClientId(b, c), "", "HELLO">>

Ok(b, c) == <<ClientId(b, c), "", "OK">>

\* C18: with two brokers that list each other as peer, a request of a client
\* of b that b offloads reaches the peer p's cloud-frontend under b's
\* identity; p sends it to the worker at the front of its queue and never on
\* cloud-backend; p sends that worker's reply on its cloud-frontend and not on
\* its local-frontend, so that it reaches b's cloud-backend under p's
\* identity; and b sends what it reads from cloud-backend on its
\* local-frontend to the client that asked, and not on its cloud-frontend.
C18_OffloadRoundTrip ==
    [][\A b \in Names : \A p \in Names \ {b} :
         /\ (StepOf(b, "drain") /\ last'.to = "cloudbe") =>
               \E c \in ClientIx :
                   /\ Head(localfe[b]) = Hello(b, c)
                   /\ last'.put = <<p, "">> \o Hello(b, c)
                   /\ ~Gone(p) => cloudfe'[p] = Append(cloudfe[p], <<b, "">> \o Hello(b, c))
         /\ (StepOf(b, "drain") /\ last'.from = "cloudfe") =>
               \E c \in ClientIx :
                   /\ Head(cloudfe[b]) = <<p, "">> \o Hello(p, c)
                   /\ cpc[p][c] = "recv"
                   /\ last'.to = "localbe"
                   /\ OnLocalBe(b, <<Head(workers[b]), "", p, "">> \o Hello(p, c))
                   /\ NoneOnCloudBe(b)
         /\ (StepOf(b, "reply") /\ last'.from = "localbe" /\ Head(localbe[b])[3] = p) =>
               \E c \in ClientIx :
                   /\ SubSeq(Head(localbe[b]), 2, 7) = <<"", p, "">> \o Ok(p, c)
                   /\ last'.to = "cloudfe"
                   /\ last'.put = <<p, "">> \o Ok(p, c)
                   /\ ~Gone(p) => cloudbe'[p] = Append(cloudbe[p], <<b, "">> \o Ok(p, c))
                   /\ NoneOnLocalFe(b)
         /\ (StepOf(b, "reply") /\ last'.from = "cloudbe") =>
               \E c \in ClientIx :
                   /\ Head(cloudbe[b]) = <<p, "">> \o Ok(b, c)
                   /\ cpc[b][c] = "recv"
                   /\ last'.to = "localfe"
                   /\ last'.put = Ok(b, c)
                   /\ OnLocalFe(b, Ok(b, c))
                   /\ NoneOnCloudFe(b)]_vars

\* The reply to a request that A offloaded, served by a worker of B, has come
\* back on A's cloud-backend and is with A's client.
C18_Witness ==
    /\ last.b = "A" /\ last.op = "reply" /\ last.from = "cloudbe"
    /\ last.got = <<"B", "">> \o Ok("A", 0)
    /\ last.to = "localfe"
    /\ routed["B"] # <<>>
    /\ routed["A"] = <<>>
    /\ cbox["A"][0] = << <<"", "OK">> >>

\* Client c of broker b has a request out, and has the reply to it.
Asking(b, c) == cpc[b][c] = "recv"

Answered(b, c) == cpc[b][c] = "send"

\* A client with a request out holds at most one reply, one without holds
\* none, and what a broker sends on its local-frontend is the reply to a
\* client of its own that has a request out.
OneReply ==
    /\ \A b \in Names : \A c \in ClientIx :
          Len(cbox[b][c]) <= (IF Asking(b, c) THEN 1 ELSE 0)
    /\ last.to = "localfe" =>
          \E c \in ClientIx :
              /\ last.put = <<ClientId(last.b, c), "", "OK">>
              /\ Asking(last.b, c)
              /\ cbox[last.b][c] = << <<"", "OK">> >>

\* C20, as claimed: with peered brokers, workers and clients that are all
\* scheduled fairly, every request a client sends is answered, by exactly one
\* reply delivered to that client on its own broker's local-frontend.
C20_EveryRequestAnswered ==
    /\ []OneReply
    /\ \A b \in Names : \A c \in ClientIx : Asking(b, c) ~> Answered(b, c)

\* C20, amended: with peered brokers, workers and clients that are all
\* scheduled fairly, and clients that send a bounded number of requests in
\* all, every request a client sends is answered, by exactly one reply
\* delivered to that client on its own broker's local-frontend.
C20_BoundedRequestsAnswered ==
    /\ []OneReply
    /\ \A b \in Names : \A c \in ClientIx : (bounded /\ Asking(b, c)) ~> Answered(b, c)

\* The last request of a bounded run was offloaded by A and served by a worker
\* of B, and A has sent the reply to its client; B's client waits for nothing.
C20_Witness ==
    /\ bounded /\ nsent = MaxReqs
    /\ last.b = "A" /\ last.op = "reply" /\ last.from = "cloudbe" /\ last.to = "localfe"
    /\ Asking("A", 0) /\ cbox["A"][0] = << <<"", "OK">> >>
    /\ Answered("B", 0)

====
